---- MODULE Spec2Model ----
(***************************************************************************)
(* contextify (src/main.go): walk a directory tree, prune excluded         *)
(* directories, keep the files whose extension is wanted, and transcribe   *)
(* each of them into one output file through a buffered writer.            *)
(*                                                                         *)
(* Strings are sequences of one-character strings, so that Split, Join,    *)
(* TrimSpace, Ext and the line scanner are computed the way the Go code    *)
(* computes them.  A fixed text of the program, such as "## File: ", is    *)
(* one element of such a sequence (it holds no separator, no dot and no    *)
(* line terminator, so no operation of the program looks inside it).       *)
(***************************************************************************)
EXTENDS Integers, Sequences, FiniteSets, TLC

VARIABLES
    flags,      \* the command line: [input, output, exclude, extensions]
    config,     \* the Config main builds from the flags
    fsys,       \* the file system: path -> [kind, data, mode]
    out,        \* the output file and the bufio.Writer on top of it
    defers,     \* processDirectory's stack of deferred calls
    todo,       \* filepath.WalkDir: the nodes still to be walked, in order
    visited,    \* every call of the walk callback: [rel, failed]
    sections,   \* every call of processFile that got to write: [rel, from, to]
    fileCount,  \* processDirectory's fileCount
    pc,         \* where the process is
    scanner,    \* processFile's bufio.Scanner
    lineCount,  \* processFile's lineCount
    opened,     \* lines of the file processFile is reading, when it was opened
    err,        \* the error the walk ended with
    result,     \* what processDirectory returned
    exitCode,   \* the exit code of the process
    logs,       \* messages sent to the logger
    hist,       \* counts of opens and closes, and the I/O faults met
    run,        \* 1 for the first run of the tool, 2 for the second
    prev,       \* the first run's output and result, kept for the second
    probe       \* argument and result of a function applied on its own

vars == <<flags, config, fsys, out, defers, todo, visited, sections, fileCount,
          pc, scanner, lineCount, opened, err, result, exitCode, logs,
          hist, run, prev, probe>>

-----------------------------------------------------------------------------
(* Bounds of the model.  The three buffer sizes are Go's 4096, 4096 and    *)
(* 65536 scaled down; the texts of the model are scaled with them.         *)

BufSize == 32            \* bufio.NewWriter's buffer
StartBufSize == 32       \* bufio.Scanner's first buffer
MaxScanTokenSize == 64   \* bufio.Scanner's longest line
MaxDisk == 160           \* the output file is followed up to this size
MaxProbeSegs == 3        \* segments of a path given to shouldExcludeDir
MaxFlagPieces == 4       \* pieces a --exclude value is put together from

-----------------------------------------------------------------------------
(* Strings *)

NL == "\n"
Fence == "[fence]"   \* the three backquotes that open and close a code block
CR == "\r"
Sep == "/"      \* filepath.Separator

Min(a, b) == IF a < b THEN a ELSE b

\* The byte of each character that occurs in a file name.
CharCode ==
    ("." :> 46) @@ ("/" :> 47) @@ ("a" :> 97) @@ ("b" :> 98) @@ ("c" :> 99)
    @@ ("d" :> 100) @@ ("e" :> 101) @@ ("g" :> 103) @@ ("h" :> 104)
    @@ ("i" :> 105) @@ ("n" :> 110) @@ ("o" :> 111) @@ ("s" :> 115)
    @@ ("t" :> 116) @@ ("w" :> 119) @@ ("x" :> 120) @@ ("z" :> 122)

\* Go's string comparison s < t (bytewise), which os.ReadDir sorts names by
RECURSIVE StrLess(_, _)
StrLess(s, t) ==
    IF t = <<>> THEN FALSE
    ELSE IF s = <<>> THEN TRUE
    ELSE IF CharCode[Head(s)] # CharCode[Head(t)]
         THEN CharCode[Head(s)] < CharCode[Head(t)]
    ELSE StrLess(Tail(s), Tail(t))

\* the elements of S in increasing order
RECURSIVE SortStrings(_)
SortStrings(S) ==
    IF S = {} THEN <<>>
    ELSE LET m == CHOOSE m \in S : \A o \in S \ {m} : StrLess(m, o)
         IN  <<m>> \o SortStrings(S \ {m})

\* strings.Split(s, sep) for a one-character sep
RECURSIVE Split(_, _)
Split(s, sep) ==
    IF \A i \in 1..Len(s) : s[i] # sep THEN <<s>>
    ELSE LET i == CHOOSE i \in 1..Len(s) :
                     s[i] = sep /\ \A j \in 1..(i - 1) : s[j] # sep
         IN  <<SubSeq(s, 1, i - 1)>> \o Split(SubSeq(s, i + 1, Len(s)), sep)

\* strings.Join(items, sep)
RECURSIVE Join(_, _)
Join(items, sep) ==
    IF items = <<>> THEN <<>>
    ELSE IF Len(items) = 1 THEN items[1]
    ELSE items[1] \o sep \o Join(Tail(items), sep)

IsSpace(c) == c \in {" ", "\t", NL, CR}

\* strings.TrimSpace(s)
RECURSIVE TrimSpace(_)
TrimSpace(s) ==
    IF s = <<>> THEN s
    ELSE IF IsSpace(Head(s)) THEN TrimSpace(Tail(s))
    ELSE IF IsSpace(s[Len(s)]) THEN TrimSpace(SubSeq(s, 1, Len(s) - 1))
    ELSE s

\* filepath.Ext(path): from the last dot of the last element of path
RECURSIVE ExtFrom(_, _)
ExtFrom(path, i) ==
    IF i < 1 \/ path[i] = Sep THEN <<>>
    ELSE IF path[i] = "." THEN SubSeq(path, i, Len(path))
    ELSE ExtFrom(path, i - 1)

Ext(path) == ExtFrom(path, Len(path))

\* filepath.Rel(base, path) for base itself and for the paths below base
Rel(base, path) ==
    IF path = base THEN <<".">>
    ELSE SubSeq(path, Len(base) + 2, Len(path))

\* filepath.Join(dir, name), as WalkDir forms the path of an entry
JoinPath(dir, name) == dir \o <<Sep>> \o name

-----------------------------------------------------------------------------
(* main's helpers *)

\* parseCommaSeparated's loop over the parts
RECURSIVE TrimmedParts(_)
TrimmedParts(parts) ==
    IF parts = <<>> THEN <<>>
    ELSE LET trimmed == TrimSpace(Head(parts))
         IN  (IF trimmed # <<>> THEN <<trimmed>> ELSE <<>>)
             \o TrimmedParts(Tail(parts))

parseCommaSeparated(input) ==
    IF input = <<>> THEN <<>>
    ELSE TrimmedParts(Split(input, ","))

\* a map[string]bool whose values are all true is the set of its keys
createLookupMap(items) == {items[i] : i \in 1..Len(items)}

GitDir == <<".", "g", "i", "t">>

\* a faulty ensureGitExcluded, which adds nothing
ensureGitExcludedNever(excludeDirs) == excludeDirs

ensureGitExcluded(excludeDirs) ==
    IF \E i \in 1..Len(excludeDirs) : excludeDirs[i] = GitDir
    THEN excludeDirs
    ELSE Append(excludeDirs, GitDir)

\* a faulty shouldExcludeDir, which matches an entry by prefix
shouldExcludeDirPrefix(relPath, excludeMap) ==
    IF Cardinality(excludeMap) = 0 THEN FALSE
    ELSE \E e \in excludeMap :
            Len(e) <= Len(relPath) /\ SubSeq(relPath, 1, Len(e)) = e

shouldExcludeDir(relPath, excludeMap) ==
    IF Cardinality(excludeMap) = 0 THEN FALSE
    ELSE LET parts == Split(relPath, Sep)
         IN  IF \E i \in 1..Len(parts) : parts[i] \in excludeMap THEN TRUE
             ELSE relPath \in excludeMap

\* a faulty shouldIncludeFile, which ignores the extensions
shouldIncludeFileAll(filePath, includeMap) == TRUE

shouldIncludeFile(filePath, includeMap) ==
    IF Cardinality(includeMap) = 0 THEN TRUE
    ELSE Ext(filePath) \in includeMap

\* writeHeader's list of headers, each written by one Fprint
writeHeaderLines(absPath, cfg) ==
    << <<"# Contextify Output", NL>>,
       <<"# Generated from: ">> \o absPath \o <<NL>>,
       <<"# Excluded directories: ">> \o Join(cfg.excludeDirs, <<",", " ">>)
           \o <<NL>> >>
    \o (IF Len(cfg.includeExts) > 0
        THEN << <<"# Included extensions: ">>
                \o Join(cfg.includeExts, <<",", " ">>) \o <<NL>> >>
        ELSE <<>>)
    \o << <<NL>> >>

-----------------------------------------------------------------------------
(* The output file and the bufio.Writer of processDirectory.                *)
(* out = [state, disk, buf, err, sent, late, inj, hit]:                     *)
(*   state  Unopened, Open or Closed                                        *)
(*   disk   the bytes of the output file                                    *)
(*   buf    the bytes the writer holds                                      *)
(*   err    the writer's sticky error                                       *)
(*   sent   every byte a Write call accepted                                *)
(*   late   a write reached the file while it was not open                  *)
(*   inj    the next write to the file fails (an I/O fault)                 *)
(*   hit    an I/O fault was met                                            *)

\* (*os.File).Write: all of data, or nothing and an error
FileWrite(o, data) ==
    IF o.state # "Open" THEN [o EXCEPT !.err = TRUE, !.late = TRUE]
    ELSE IF o.inj THEN [o EXCEPT !.err = TRUE, !.inj = FALSE, !.hit = TRUE]
    ELSE [o EXCEPT !.disk = @ \o data]

\* (*bufio.Writer).Flush
Flush(o) ==
    IF o.err THEN o
    ELSE IF o.buf = <<>> THEN o
    ELSE LET r == FileWrite(o, o.buf)
         IN  IF r.err THEN r ELSE [r EXCEPT !.buf = <<>>]

\* (*bufio.Writer).Write(p), which every Fprint and Fprintf ends in
RECURSIVE Write(_, _)
Write(o, p) ==
    IF Len(p) > BufSize - Len(o.buf) /\ ~o.err
    THEN IF o.buf = <<>>
         THEN \* a large write goes to the file directly
              LET r == FileWrite(o, p)
              IN  IF r.err THEN r ELSE [r EXCEPT !.sent = @ \o p]
         ELSE LET n == BufSize - Len(o.buf)
                  f == Flush([o EXCEPT !.buf = @ \o SubSeq(p, 1, n),
                                       !.sent = @ \o SubSeq(p, 1, n)])
              IN  Write(f, SubSeq(p, n + 1, Len(p)))
    ELSE IF o.err THEN o
    ELSE [o EXCEPT !.buf = @ \o p, !.sent = @ \o p]

\* a sequence of Fprint calls that returns at the first error
RECURSIVE WriteAll(_, _)
WriteAll(o, chunks) ==
    IF chunks = <<>> \/ o.err THEN o
    ELSE WriteAll(Write(o, Head(chunks)), Tail(chunks))

NewOut(disk) ==
    [state |-> "Unopened", disk |-> disk, buf |-> <<>>, err |-> FALSE,
     sent |-> <<>>, late |-> FALSE, inj |-> FALSE, hit |-> FALSE]

\* o with an I/O fault armed or not; a fault must be met to count
Armed(o, inj) == [o EXCEPT !.inj = inj]
Met(o, inj) == inj => ~o.inj

-----------------------------------------------------------------------------
(* processFile's bufio.Scanner: [buf, start, cap, pos, err].  buf is the   *)
(* data read and not yet shifted out (buf[start+1 .. Len(buf)] is not yet   *)
(* consumed), cap is len(s.buf), pos is the offset in the file.             *)

NewScanner == [buf |-> <<>>, start |-> 0, cap |-> 0, pos |-> 0, err |-> "nil"]

dropCR(data) ==
    IF Len(data) > 0 /\ data[Len(data)] = CR
    THEN SubSeq(data, 1, Len(data) - 1)
    ELSE data

\* bufio.ScanLines: [adv, has, tok]
ScanLines(data, atEOF) ==
    IF atEOF /\ Len(data) = 0 THEN [adv |-> 0, has |-> FALSE, tok |-> <<>>]
    ELSE IF \E i \in 1..Len(data) : data[i] = NL
    THEN LET i == CHOOSE i \in 1..Len(data) :
                      data[i] = NL /\ \A j \in 1..(i - 1) : data[j] # NL
         IN  [adv |-> i, has |-> TRUE, tok |-> dropCR(SubSeq(data, 1, i - 1))]
    ELSE IF atEOF
    THEN [adv |-> Len(data), has |-> TRUE, tok |-> dropCR(data)]
    ELSE [adv |-> 0, has |-> FALSE, tok |-> <<>>]

\* the data of s moved to the start of its buffer
Shifted(s) ==
    [s EXCEPT !.buf = SubSeq(s.buf, s.start + 1, Len(s.buf)), !.start = 0]

\* (*os.File).Read into the free end of the buffer
FileRead(s, content, mode) ==
    IF mode = "noread" THEN [s EXCEPT !.err = "EIO"]
    ELSE IF Len(content) - s.pos <= 0 THEN [s EXCEPT !.err = "EOF"]
    ELSE LET n == Min(s.cap - Len(s.buf), Len(content) - s.pos)
         IN  [s EXCEPT !.buf = @ \o SubSeq(content, s.pos + 1, s.pos + n),
                       !.pos = @ + n]

\* (*bufio.Scanner).Scan: [s, ok, tok]
RECURSIVE Scan(_, _, _)
Scan(s, content, mode) ==
    LET data == SubSeq(s.buf, s.start + 1, Len(s.buf))
        t == ScanLines(data, s.err # "nil")
    IN  IF (Len(data) > 0 \/ s.err # "nil") /\ t.has
        THEN [s |-> [s EXCEPT !.start = @ + t.adv], ok |-> TRUE, tok |-> t.tok]
        ELSE IF s.err # "nil"
        THEN [s |-> [s EXCEPT !.buf = <<>>, !.start = 0],
              ok |-> FALSE, tok |-> <<>>]
        ELSE LET s1 == IF s.start > 0
                          /\ (Len(s.buf) = s.cap \/ s.start > s.cap \div 2)
                       THEN Shifted(s) ELSE s
             IN  IF Len(s1.buf) = s1.cap /\ s1.cap >= MaxScanTokenSize
                 THEN [s |-> [s1 EXCEPT !.err = "ErrTooLong"],
                       ok |-> FALSE, tok |-> <<>>]
                 ELSE LET s2 == IF Len(s1.buf) = s1.cap
                                THEN [Shifted(s1) EXCEPT !.cap =
                                        Min(IF s1.cap = 0 THEN StartBufSize
                                            ELSE s1.cap * 2,
                                            MaxScanTokenSize)]
                                ELSE s1
                      IN  Scan(FileRead(s2, content, mode), content, mode)

-----------------------------------------------------------------------------
(* The file system.  A path is an absolute path string; a node is          *)
(* [kind, data, mode] with mode "ok", or what fails on it: "nostat"         *)
(* (os.Lstat), "nolist" (os.ReadDir), "noopen" (os.Open), "noread" (Read).  *)

Cwd == <<Sep, "w">>      \* the working directory, which is the tree walked
Tmp == <<Sep, "t">>      \* a directory outside the tree

\* filepath.Abs(path), which is also how the system resolves a relative path
Abs(path) ==
    IF path = <<".">> THEN Cwd
    ELSE IF Head(path) = Sep THEN path
    ELSE JoinPath(Cwd, path)

LastSep(path) ==
    CHOOSE i \in 1..Len(path) :
        path[i] = Sep /\ \A j \in (i + 1)..Len(path) : path[j] # Sep

Parent(path) == SubSeq(path, 1, LastSep(path) - 1)
Base(path) == SubSeq(path, LastSep(path) + 1, Len(path))

\* the paths of the entries of directory dir
Entries(fs, dir) == {q \in DOMAIN fs : Len(q) > Len(dir) /\ Parent(q) = dir}

\* os.ReadDir(dir) as WalkDir uses it: the entries' paths, sorted by name
ReadDir(fs, dir) ==
    LET names == SortStrings({Base(q) : q \in Entries(fs, dir)})
    IN  [i \in 1..Len(names) |-> JoinPath(dir, names[i])]

DirNode == [kind |-> "dir", data |-> <<>>, mode |-> "ok"]
FileNode(data) == [kind |-> "file", data |-> data, mode |-> "ok"]

In(rel) == JoinPath(Cwd, rel)

LongLine == [i \in 1..(MaxScanTokenSize + 1) |-> "x"]

EmptyTree == (Cwd :> DirNode) @@ (Tmp :> DirNode)

\* root/{.git/h, a.g, b.t, n/{d/x.g, i.g}, s/{c.g, n/e.g}}
FullTree ==
    EmptyTree
    @@ (In(<<".", "g", "i", "t">>) :> DirNode)
    @@ (In(<<".", "g", "i", "t", Sep, "h">>) :> FileNode(<<"x", NL>>))
    @@ (In(<<"a", ".", "g">>) :> FileNode(<<"x", NL, "y">>))
    @@ (In(<<"b", ".", "t">>) :> FileNode(<<"x", CR, NL, NL, "y", CR>>))
    @@ (In(<<"n">>) :> DirNode)
    @@ (In(<<"n", Sep, "d">>) :> DirNode)
    @@ (In(<<"n", Sep, "d", Sep, "x", ".", "g">>) :> FileNode(<<"y", NL>>))
    @@ (In(<<"n", Sep, "i", ".", "g">>) :> FileNode(<<NL>>))
    @@ (In(<<"s">>) :> DirNode)
    @@ (In(<<"s", Sep, "c", ".", "g">>) :> FileNode(<<>>))
    @@ (In(<<"s", Sep, "n">>) :> DirNode)
    @@ (In(<<"s", Sep, "n", Sep, "e", ".", "g">>) :> FileNode(<<"x", "y", NL>>))

\* root/{a.g}, one line that the writer's first flush cuts in two
LineTree ==
    EmptyTree
    @@ (In(<<"a", ".", "g">>) :> FileNode([i \in 1..13 |-> "x"]))

Trees ==
    { FullTree,
      EmptyTree,
      LineTree,
      [EmptyTree EXCEPT ![Cwd].mode = "nostat"],
      [FullTree EXCEPT ![In(<<"n">>)].mode = "nolist"],
      [FullTree EXCEPT ![In(<<"b", ".", "t">>)].mode = "noopen"],
      [FullTree EXCEPT ![In(<<"s", Sep, "c", ".", "g">>)].mode = "noread"],
      [FullTree EXCEPT ![In(<<"a", ".", "g">>)].data = LongLine] }

\* values of --exclude
ExcludeFlags ==
    { <<>>,
      <<"n">>,
      <<"s", Sep, "n">>,
      <<".">>,
      <<" ", "n", ",", ".", "g", "i", "t">>,
      <<"n", ",", "s", Sep, "n", ",", ".", ",", ".", "g", "i", "t", ",",
        "a", ".", "g", ",", "b", ".", "t">> }

\* values of --extensions
ExtensionFlags == { <<>>, <<".", "g">> }

\* values of --output: outside the tree, in its root (late and early in the
\* directory's order), in a subdirectory, and in a directory that is missing
OutputFlags ==
    { JoinPath(Tmp, <<"o">>),
      <<"o">>,
      <<".", "o">>,
      <<"n", Sep, "o">>,
      <<"z", Sep, "o">> }

-----------------------------------------------------------------------------
(* The state before main runs *)

Nil == [op |-> "nil", path |-> <<>>]
Error(op, path) == [op |-> op, path |-> path]

NoConfig ==
    [inputPath |-> <<>>, outputPath |-> <<>>, excludeDirs |-> <<>>,
     includeExts |-> <<>>, excludeMap |-> {}, includeMap |-> {}]

NoHist ==
    [outOpens |-> 0, outCloses |-> 0, inOpens |-> 0, inCloses |-> 0,
     flushFailed |-> FALSE, closeFailed |-> FALSE]

NoProbe == [relPath |-> <<>>, excludeMap |-> {}, done |-> FALSE, res |-> FALSE]

NoPrev == [disk |-> <<>>, result |-> Nil, exitCode |-> -1, hit |-> FALSE]

\* everything but flags, fsys, run, prev and probe, as a process starts
Start(disk) ==
    /\ config = NoConfig
    /\ out = NewOut(disk)
    /\ defers = <<>>
    /\ todo = <<>>
    /\ visited = <<>>
    /\ sections = <<>>
    /\ fileCount = 0
    /\ pc = "main"
    /\ scanner = NewScanner
    /\ lineCount = 0
    /\ opened = 0
    /\ err = Nil
    /\ result = Nil
    /\ exitCode = -1
    /\ logs = {}
    /\ hist = NoHist

Init ==
    /\ flags \in [input : {<<".">>}, output : OutputFlags,
                  exclude : ExcludeFlags, extensions : ExtensionFlags]
    /\ fsys \in Trees
    /\ run = 1
    /\ prev = NoPrev
    /\ probe = NoProbe
    /\ Start(<<>>)

-----------------------------------------------------------------------------
(* main and processDirectory up to the walk *)

AbsPath == Abs(config.inputPath)    \* processDirectory's absPath
Dest == Abs(config.outputPath)      \* the file os.Create makes

\* what a read of the file at path sees
Content(path) == IF path = Dest THEN out.disk ELSE fsys[path].data

\* main: the Config and its lookup maps
Main ==
    /\ pc = "main"
    /\ config' =
          LET excludeList ==
                  ensureGitExcluded(parseCommaSeparated(flags.exclude))
              includeExts == parseCommaSeparated(flags.extensions)
          IN  [inputPath |-> flags.input,
               outputPath |-> flags.output,
               excludeDirs |-> excludeList,
               includeExts |-> includeExts,
               excludeMap |-> createLookupMap(excludeList),
               includeMap |-> createLookupMap(includeExts)]
    /\ logs' = logs \cup {"Starting contextify"}
    /\ pc' = "create"
    /\ UNCHANGED <<flags, fsys, out, defers, todo, visited, sections,
                   fileCount, scanner, lineCount, opened, err, result,
                   exitCode, hist, run, prev, probe>>

\* os.Create(path) succeeds: the directory is there and path is no directory
CanCreate(fs, path) ==
    /\ Parent(path) \in DOMAIN fs
    /\ fs[Parent(path)].kind = "dir"
    /\ path \in DOMAIN fs => fs[path].kind = "file"

\* os.Create(path): the file is there and empty
Created(fs, path) ==
    IF path \in DOMAIN fs THEN [fs EXCEPT ![path] = FileNode(<<>>)]
    ELSE fs @@ (path :> FileNode(<<>>))

\* a faulty os.Create, which does not truncate
os_CreateKeeps(o) == [o EXCEPT !.state = "Open"]

\* the output file as os.Create leaves it: open and truncated
os_Create(o) == [o EXCEPT !.state = "Open", !.disk = <<>>]

\* processDirectory: os.Create and the two defers
CreateOutput ==
    /\ pc = "create"
    /\ CanCreate(fsys, Dest)
    /\ fsys' = Created(fsys, Dest)
    /\ out' = os_Create(out)
    /\ defers' = <<"close", "flush">>
    /\ hist' = [hist EXCEPT !.outOpens = @ + 1]
    /\ pc' = "header"
    /\ UNCHANGED <<flags, config, todo, visited, sections, fileCount, scanner,
                   lineCount, opened, err, result, exitCode, logs, run, prev,
                   probe>>

\* processDirectory: os.Create fails
CreateFails ==
    /\ pc = "create"
    /\ ~CanCreate(fsys, Dest)
    /\ result' = Error("create", Dest)
    /\ pc' = "return"
    /\ UNCHANGED <<flags, config, fsys, out, defers, todo, visited, sections,
                   fileCount, scanner, lineCount, opened, err, exitCode, logs,
                   hist, run, prev, probe>>

\* processDirectory: writeHeader, then the walk starts at absPath
WriteHeader ==
    /\ pc = "header"
    /\ \E inj \in BOOLEAN :
          LET o == WriteAll(Armed(out, inj), writeHeaderLines(AbsPath, config))
          IN  /\ Met(o, inj)
              /\ Len(o.disk) <= MaxDisk
              /\ out' = o
              /\ IF o.err
                 THEN /\ result' = Error("header", Dest)
                      /\ pc' = "return"
                      /\ UNCHANGED todo
                 ELSE /\ pc' = "walk"
                      /\ todo' = <<AbsPath>>
                      /\ UNCHANGED result
    /\ UNCHANGED <<flags, config, fsys, defers, visited, sections, fileCount,
                   scanner, lineCount, opened, err, exitCode, logs, hist, run,
                   prev, probe>>

\* the lines a scan of content finds
NumLines(content) ==
    Cardinality({i \in 1..Len(content) : content[i] = NL})
    + (IF content # <<>> /\ content[Len(content)] # NL THEN 1 ELSE 0)

-----------------------------------------------------------------------------
(* filepath.WalkDir and the callback.  Head(todo) is the node WalkDir      *)
(* calls the callback on next.                                              *)

\* a faulty callback, which goes on after an error
AbortSkips(e, td) ==
    /\ err' = e
    /\ result' = Nil
    /\ pc' = "walk"
    /\ todo' = Tail(td)

\* the callback returns error e: WalkDir returns it, processDirectory too
Abort(e, td) ==
    /\ err' = e
    /\ result' = e
    /\ pc' = "return"
    /\ todo' = td

\* a faulty WalkDir, which ignores SkipDir
walkDirNextDescends(td, entries, skip) == entries \o Tail(td)

\* after the callback on directory Head(td): on SkipDir the directory's
\* siblings, else its entries and then its siblings
walkDirNext(td, entries, skip) ==
    IF skip THEN Tail(td) ELSE entries \o Tail(td)

\* a faulty ReadDir, which lists the entries in reverse
ReadDirUnsorted(fs, dir) ==
    LET sorted == ReadDir(fs, dir)
    IN  [i \in 1..Len(sorted) |-> sorted[Len(sorted) + 1 - i]]

\* the entries WalkDir goes through after the callback on dir
walkDirEntries(fs, dir) == ReadDir(fs, dir)

Visit(path, failed) == [path |-> path, failed |-> failed]

\* os.Lstat(root) fails: the callback is called with the error
WalkStatError ==
    /\ pc = "walk" /\ todo # <<>>
    /\ LET path == Head(todo)
       IN  /\ path = AbsPath /\ fsys[path].mode = "nostat"
           /\ visited' = Append(visited, Visit(path, TRUE))
           /\ logs' = logs \cup {"Error accessing path"}
           /\ Abort(Error("lstat", path), todo)
    /\ UNCHANGED <<flags, config, fsys, out, defers, sections, fileCount,
                   scanner, lineCount, opened, exitCode, hist, run, prev,
                   probe>>

\* the callback on a directory: SkipDir if excluded, else into it
WalkDirectory ==
    /\ pc = "walk" /\ todo # <<>>
    /\ LET path == Head(todo)
           skip == shouldExcludeDir(Rel(AbsPath, path), config.excludeMap)
       IN  /\ fsys[path].kind = "dir" /\ fsys[path].mode # "nostat"
           /\ skip \/ fsys[path].mode # "nolist"
           /\ visited' = Append(visited, Visit(path, FALSE))
           /\ todo' = walkDirNext(todo, walkDirEntries(fsys, path), skip)
    /\ UNCHANGED <<flags, config, fsys, out, defers, sections, fileCount, pc,
                   scanner, lineCount, opened, err, result, exitCode, logs,
                   hist, run, prev, probe>>

\* the callback on a directory returns nil, os.ReadDir fails, and the
\* callback is called again with the error
WalkListError ==
    /\ pc = "walk" /\ todo # <<>>
    /\ LET path == Head(todo)
       IN  /\ fsys[path].kind = "dir" /\ fsys[path].mode = "nolist"
           /\ ~shouldExcludeDir(Rel(AbsPath, path), config.excludeMap)
           /\ visited' = visited \o <<Visit(path, FALSE), Visit(path, TRUE)>>
           /\ logs' = logs \cup {"Error accessing path"}
           /\ Abort(Error("readdir", path), todo)
    /\ UNCHANGED <<flags, config, fsys, out, defers, sections, fileCount,
                   scanner, lineCount, opened, exitCode, hist, run, prev,
                   probe>>

\* the callback on a file whose extension is not wanted
WalkSkipFile ==
    /\ pc = "walk" /\ todo # <<>>
    /\ LET path == Head(todo)
       IN  /\ fsys[path].kind = "file"
           /\ ~shouldIncludeFile(path, config.includeMap)
           /\ visited' = Append(visited, Visit(path, FALSE))
           /\ todo' = Tail(todo)
    /\ UNCHANGED <<flags, config, fsys, out, defers, sections, fileCount, pc,
                   scanner, lineCount, opened, err, result, exitCode, logs,
                   hist, run, prev, probe>>

\* processFile: os.Open fails
WalkOpenError ==
    /\ pc = "walk" /\ todo # <<>>
    /\ LET path == Head(todo)
       IN  /\ fsys[path].kind = "file" /\ fsys[path].mode = "noopen"
           /\ shouldIncludeFile(path, config.includeMap)
           /\ visited' = Append(visited, Visit(path, FALSE))
           /\ logs' = logs \cup {"Failed to process file"}
           /\ Abort(Error("open", path), todo)
    /\ UNCHANGED <<flags, config, fsys, out, defers, sections, fileCount,
                   scanner, lineCount, opened, exitCode, hist, run, prev,
                   probe>>

\* processFile's two writes before the file's lines
sectionHead(relPath) ==
    << <<"## File: ">> \o relPath \o <<NL>>, <<Fence, NL>> >>

\* processFile's write after the file's lines
sectionFoot == <<Fence, NL, NL>>

\* processFile returns: the deferred file.Close
processFileReturns(h) == [h EXCEPT !.inCloses = @ + 1]

\* the callback on a wanted file: processFile opens it and writes the head
WalkOpenFile ==
    /\ pc = "walk" /\ todo # <<>>
    /\ LET path == Head(todo)
           relPath == Rel(AbsPath, path)
       IN  /\ fsys[path].kind = "file" /\ fsys[path].mode # "noopen"
           /\ shouldIncludeFile(path, config.includeMap)
           /\ visited' = Append(visited, Visit(path, FALSE))
           /\ opened' = NumLines(Content(path))
           /\ sections' = Append(sections,
                 [rel |-> relPath, from |-> Len(out.sent) + 1, to |-> 0])
           /\ scanner' = NewScanner
           /\ lineCount' = 0
           /\ \E inj \in BOOLEAN :
                 LET o == WriteAll(Armed(out, inj), sectionHead(relPath))
                     h == [hist EXCEPT !.inOpens = @ + 1]
                 IN  /\ Met(o, inj)
                     /\ Len(o.disk) <= MaxDisk
                     /\ out' = o
                     /\ IF o.err
                        THEN /\ hist' = processFileReturns(h)
                             /\ logs' = logs \cup {"Failed to process file"}
                             /\ Abort(Error("write", path), todo)
                        ELSE /\ hist' = h
                             /\ pc' = "scan"
                             /\ UNCHANGED <<err, result, todo, logs>>
    /\ UNCHANGED <<flags, config, fsys, defers, fileCount, exitCode, run,
                   prev, probe>>

\* processFile's loop: one scanner.Scan() that finds a line, and its Fprintf
ScanLine ==
    /\ pc = "scan"
    /\ LET path == Head(todo)
           r == Scan(scanner, Content(path), fsys[path].mode)
       IN  /\ r.ok
           /\ scanner' = r.s
           /\ \E inj \in BOOLEAN :
                 LET o == Write(Armed(out, inj), r.tok \o <<NL>>)
                 IN  /\ Met(o, inj)
                     /\ Len(o.disk) <= MaxDisk
                     /\ out' = o
                     /\ IF o.err
                        THEN /\ hist' = processFileReturns(hist)
                             /\ logs' = logs \cup {"Failed to process file"}
                             /\ Abort(Error("write", path), todo)
                             /\ UNCHANGED lineCount
                        ELSE /\ lineCount' = lineCount + 1
                             /\ UNCHANGED <<hist, logs, err, result, pc, todo>>
    /\ UNCHANGED <<flags, config, fsys, defers, visited, sections, fileCount,
                   opened, exitCode, run, prev, probe>>

\* processFile's loop ends with scanner.Err() set
ScanError ==
    /\ pc = "scan"
    /\ LET path == Head(todo)
           r == Scan(scanner, Content(path), fsys[path].mode)
       IN  /\ ~r.ok /\ r.s.err # "EOF"
           /\ scanner' = r.s
           /\ hist' = processFileReturns(hist)
           /\ logs' = logs \cup {"Failed to process file"}
           /\ Abort(Error(r.s.err, path), todo)
    /\ UNCHANGED <<flags, config, fsys, out, defers, visited, sections,
                   fileCount, lineCount, opened, exitCode, run, prev, probe>>

\* processFile's loop ends at the end of the file: the foot is written,
\* processFile returns nil and the callback counts the file
ScanEnd ==
    /\ pc = "scan"
    /\ LET path == Head(todo)
           r == Scan(scanner, Content(path), fsys[path].mode)
       IN  /\ ~r.ok /\ r.s.err = "EOF"
           /\ scanner' = r.s
           /\ hist' = processFileReturns(hist)
           /\ \E inj \in BOOLEAN :
                 LET o == Write(Armed(out, inj), sectionFoot)
                 IN  /\ Met(o, inj)
                     /\ Len(o.disk) <= MaxDisk
                     /\ out' = o
                     /\ IF o.err
                        THEN /\ logs' = logs \cup {"Failed to process file"}
                             /\ Abort(Error("write", path), todo)
                             /\ UNCHANGED <<sections, fileCount>>
                        ELSE /\ sections' = [sections EXCEPT
                                   ![Len(sections)].to = Len(o.sent)]
                             /\ fileCount' = fileCount + 1
                             /\ todo' = Tail(todo)
                             /\ pc' = "walk"
                             /\ UNCHANGED <<logs, err, result>>
    /\ UNCHANGED <<flags, config, fsys, defers, visited, lineCount, opened,
                   exitCode, run, prev, probe>>

\* WalkDir returns nil
WalkDone ==
    /\ pc = "walk" /\ todo = <<>>
    /\ result' = Nil
    /\ logs' = logs \cup {"Processing completed"}
    /\ pc' = "return"
    /\ UNCHANGED <<flags, config, fsys, out, defers, todo, visited, sections,
                   fileCount, scanner, lineCount, opened, err, exitCode, hist,
                   run, prev, probe>>

-----------------------------------------------------------------------------
(* processDirectory returns: its deferred calls, then main's exit *)

\* a faulty return, which runs the deferred calls first in, first out
NextDeferredFirst(stack) == stack[1]

\* the deferred call that runs next: the one deferred last
NextDeferred(stack) == stack[Len(stack)]

Without(stack, d) ==
    SelectSeq(stack, LAMBDA x : x # d)

\* the deferred writer.Flush()
DeferredFlush ==
    /\ pc = "return" /\ defers # <<>> /\ NextDeferred(defers) = "flush"
    /\ defers' = Without(defers, "flush")
    /\ \E inj \in BOOLEAN :
          LET o == Flush(Armed(out, inj))
          IN  /\ Met(o, inj)
              /\ Len(o.disk) <= MaxDisk
              /\ out' = o
              /\ hist' = [hist EXCEPT !.flushFailed = o.err]
              /\ logs' = IF o.err THEN logs \cup {"Failed to flush writer"}
                         ELSE logs
    /\ UNCHANGED <<flags, config, fsys, todo, visited, sections, fileCount,
                   pc, scanner, lineCount, opened, err, result, exitCode, run,
                   prev, probe>>

\* the deferred outputFile.Close(), which may report an error
DeferredClose ==
    /\ pc = "return" /\ defers # <<>> /\ NextDeferred(defers) = "close"
    /\ defers' = Without(defers, "close")
    /\ \E fails \in BOOLEAN :
          /\ out.state # "Open" => fails
          /\ out' = [out EXCEPT !.state = "Closed", !.hit = @ \/ fails]
          /\ hist' = [hist EXCEPT !.outCloses = @ + 1, !.closeFailed = fails]
          /\ logs' = IF fails THEN logs \cup {"Failed to close output file"}
                     ELSE logs
    /\ UNCHANGED <<flags, config, fsys, todo, visited, sections, fileCount,
                   pc, scanner, lineCount, opened, err, result, exitCode, run,
                   prev, probe>>

\* main: os.Exit(1) on an error, else the process ends with 0
exitCodeOf(res) == IF res # Nil THEN 1 ELSE 0

Exit ==
    /\ pc = "return" /\ defers = <<>>
    /\ exitCode' = exitCodeOf(result)
    /\ logs' = logs \cup {IF result # Nil THEN "Failed to process directory"
                          ELSE "Successfully created context file"}
    /\ pc' = "exited"
    /\ UNCHANGED <<flags, config, fsys, out, defers, todo, visited, sections,
                   fileCount, scanner, lineCount, opened, err, result, hist,
                   run, prev, probe>>

\* the tool is run a second time, with the same flags, on what the first
\* run left
Rerun ==
    /\ pc = "exited" /\ run = 1
    /\ run' = 2
    /\ prev' = [disk |-> out.disk, result |-> result, exitCode |-> exitCode,
                hit |-> out.hit]
    /\ config' = NoConfig
    /\ out' = NewOut(out.disk)
    /\ defers' = <<>>
    /\ todo' = <<>>
    /\ visited' = <<>>
    /\ sections' = <<>>
    /\ fileCount' = 0
    /\ pc' = "main"
    /\ scanner' = NewScanner
    /\ lineCount' = 0
    /\ opened' = 0
    /\ err' = Nil
    /\ result' = Nil
    /\ exitCode' = -1
    /\ logs' = {}
    /\ hist' = NoHist
    /\ UNCHANGED <<flags, fsys, probe>>

Next ==
    \/ Main
    \/ CreateOutput
    \/ CreateFails
    \/ WriteHeader
    \/ WalkStatError
    \/ WalkDirectory
    \/ WalkListError
    \/ WalkSkipFile
    \/ WalkOpenError
    \/ WalkOpenFile
    \/ ScanLine
    \/ ScanError
    \/ ScanEnd
    \/ WalkDone
    \/ DeferredFlush
    \/ DeferredClose
    \/ Exit
    \/ Rerun

Spec == Init /\ [][Next]_vars

-----------------------------------------------------------------------------
(* shouldExcludeDir on its own: every relative path filepath.Rel can give  *)
(* for up to MaxProbeSegs segments, against every map of up to two entries. *)

ProbeNames == { <<"a">>, <<"a", "b">>, <<"A">>, <<"b">> }

RECURSIVE ProbePathsOf(_)
ProbePathsOf(n) ==
    IF n = 1 THEN ProbeNames
    ELSE ProbePathsOf(n - 1)
         \cup {JoinPath(q, name) : q \in ProbePathsOf(n - 1), name \in ProbeNames}

ProbePaths == {<<".">>} \cup ProbePathsOf(MaxProbeSegs)

ProbeEntries ==
    { <<"a">>, <<"b">>, <<"a", Sep, "b">>, <<".">>, <<"a", Sep>>,
      <<"b", Sep, "a", Sep, "b">> }

ProbeMaps == {m \in SUBSET ProbeEntries : Cardinality(m) <= 2}

InitMatch ==
    /\ flags = [input |-> <<".">>, output |-> JoinPath(Tmp, <<"o">>),
                exclude |-> <<>>, extensions |-> <<>>]
    /\ fsys = EmptyTree
    /\ run = 1
    /\ prev = NoPrev
    /\ probe \in [relPath : ProbePaths, excludeMap : ProbeMaps,
                  done : {FALSE}, res : {FALSE}]
    /\ Start(<<>>)

Match ==
    /\ ~probe.done
    /\ probe' = [probe EXCEPT
                    !.done = TRUE,
                    !.res = shouldExcludeDir(probe.relPath, probe.excludeMap)]
    /\ UNCHANGED <<flags, config, fsys, out, defers, todo, visited, sections,
                   fileCount, pc, scanner, lineCount, opened, err, result,
                   exitCode, logs, hist, run, prev>>

NextMatch == Match

SpecMatch == InitMatch /\ [][NextMatch]_vars

-----------------------------------------------------------------------------
(* main on every --exclude value put together from up to MaxFlagPieces     *)
(* pieces, on an empty directory.                                          *)

FlagPieces == { <<",">>, <<" ">>, GitDir, <<"a">>, <<".", "g">> }

RECURSIVE FlagValues(_)
FlagValues(n) ==
    IF n = 0 THEN {<<>>}
    ELSE FlagValues(n - 1)
         \cup {v \o piece : v \in FlagValues(n - 1), piece \in FlagPieces}

InitFlags ==
    /\ flags \in [input : {<<".">>}, output : {JoinPath(Tmp, <<"o">>)},
                  exclude : FlagValues(MaxFlagPieces), extensions : {<<>>}]
    /\ fsys = EmptyTree
    /\ run = 1
    /\ prev = NoPrev
    /\ probe = NoProbe
    /\ Start(<<>>)

NextFlags ==
    \/ Main
    \/ CreateOutput
    \/ WriteHeader
    \/ WalkDirectory
    \/ WalkDone
    \/ DeferredFlush
    \/ DeferredClose
    \/ Exit

SpecFlags == InitFlags /\ [][NextFlags]_vars

-----------------------------------------------------------------------------
(* What the properties below are stated with.  None of it is used by the   *)
(* actions above.                                                           *)

\* s[i..j] is a whole segment of path s: it holds no separator and is
\* bounded by separators or by the ends of s
IsSegmentAt(s, i, j) ==
    /\ 1 <= i /\ i <= j /\ j <= Len(s)
    /\ \A k \in i..j : s[k] # Sep
    /\ i = 1 \/ s[i - 1] = Sep
    /\ j = Len(s) \/ s[j + 1] = Sep

HasSegment(s, e) ==
    \E i \in 1..Len(s) : \E j \in i..Len(s) :
        IsSegmentAt(s, i, j) /\ SubSeq(s, i, j) = e

\* s[i..j] is one of the comma-separated parts of s
IsPartAt(s, i, j) ==
    /\ 1 <= i /\ i <= j /\ j <= Len(s)
    /\ \A k \in i..j : s[k] # ","
    /\ i = 1 \/ s[i - 1] = ","
    /\ j = Len(s) \/ s[j + 1] = ","

\* s without the white space around it, for s that is not all white space
Core(s) ==
    LET ks == {k \in 1..Len(s) : ~IsSpace(s[k])}
        lo == CHOOSE k \in ks : \A m \in ks : k <= m
        hi == CHOOSE k \in ks : \A m \in ks : m <= k
    IN  SubSeq(s, lo, hi)

\* the entries a user gives in a --exclude value
UserEntries(value) ==
    {Core(SubSeq(value, i, j)) :
        <<i, j>> \in {ij \in (1..Len(value)) \X (1..Len(value)) :
                        /\ IsPartAt(value, ij[1], ij[2])
                        /\ \E k \in ij[1]..ij[2] : ~IsSpace(value[k])}}

\* the line of text that starts at text[i], without its line terminator
LineFrom(text, i) ==
    LET ends == {k \in i..Len(text) : text[k] = NL}
        stop == IF ends = {} THEN Len(text) + 1
                ELSE CHOOSE k \in ends : \A m \in ends : k <= m
    IN  SubSeq(text, i, stop - 1)

\* e is one of the items of list, which is items joined by ", "
IsListed(list, e) ==
    \E i \in 1..Len(list) :
        /\ i + Len(e) - 1 <= Len(list)
        /\ SubSeq(list, i, i + Len(e) - 1) = e
        /\ i = 1 \/ (i > 2 /\ list[i - 2] = "," /\ list[i - 1] = " ")
        /\ \/ i + Len(e) - 1 = Len(list)
           \/ /\ i + Len(e) + 1 <= Len(list)
              /\ list[i + Len(e)] = "," /\ list[i + Len(e) + 1] = " "

\* the items of the "Excluded directories" line of text, if it has one
ExcludedLines(text) ==
    {Tail(LineFrom(text, i)) :
        i \in {k \in 1..Len(text) : text[k] = "# Excluded directories: "}}

-----------------------------------------------------------------------------
(* C9: shouldExcludeDir(relPath, E) is true exactly when E is not empty    *)
(* and some whole segment of relPath, or relPath as a whole, is an entry   *)
(* of E; nothing is matched by prefix, by substring or without regard to   *)
(* case.  Checked under SpecMatch.                                          *)
C9_ExcludeIffSegmentOrWhole ==
    probe.done =>
        (probe.res <=>
            /\ probe.excludeMap # {}
            /\ \E e \in probe.excludeMap :
                  HasSegment(probe.relPath, e) \/ probe.relPath = e)

\* a path of several segments excluded as a whole, by an entry with a
\* separator in it, and not by any of its segments
C9_Witness ==
    /\ probe.done /\ probe.res
    /\ Len(Split(probe.relPath, Sep)) > 1
    /\ \A e \in probe.excludeMap : \E k \in 1..Len(e) : e[k] = Sep

-----------------------------------------------------------------------------
(* C4: whatever --exclude is, once main has built the Config its exclusion *)
(* list and lookup map hold ".git" and every entry the user gave, and the  *)
(* "Excluded directories" line written to the output lists ".git".         *)
(* Checked under SpecFlags.                                                 *)
C4_GitAlwaysExcluded ==
    /\ pc # "main" =>
          /\ \E i \in 1..Len(config.excludeDirs) : config.excludeDirs[i] = GitDir
          /\ GitDir \in config.excludeMap
          /\ \A e \in UserEntries(flags.exclude) :
                /\ \E i \in 1..Len(config.excludeDirs) : config.excludeDirs[i] = e
                /\ e \in config.excludeMap
    /\ pc \in {"walk", "scan"} \/ (pc \in {"return", "exited"} /\ result = Nil) =>
          /\ ExcludedLines(out.sent) # {}
          /\ \A list \in ExcludedLines(out.sent) : IsListed(list, GitDir)
    /\ pc = "exited" /\ result = Nil /\ ~out.hit =>
          /\ ExcludedLines(out.disk) # {}
          /\ \A list \in ExcludedLines(out.disk) : IsListed(list, GitDir)

\* a run that ended well on a value that names a directory and not ".git"
C4_Witness ==
    /\ pc = "exited" /\ result = Nil /\ ~out.hit
    /\ flags.exclude = <<" ", "a", ",", ".", "g">>
    /\ config.excludeDirs = << <<"a">>, <<".", "g">>, GitDir >>

-----------------------------------------------------------------------------
(* The tree as the properties see it *)

IsBelow(q, a) == Len(q) > Len(a) + 1 /\ SubSeq(q, 1, Len(a) + 1) = a \o <<Sep>>

InTree(q) == q = AbsPath \/ IsBelow(q, AbsPath)

\* rel matches the exclusion list: by a whole segment or as a whole
MatchesExclusion(rel) ==
    \E i \in 1..Len(config.excludeDirs) :
        HasSegment(rel, config.excludeDirs[i]) \/ rel = config.excludeDirs[i]

ExcludedDirs ==
    {a \in DOMAIN fsys :
        InTree(a) /\ fsys[a].kind = "dir" /\ MatchesExclusion(Rel(AbsPath, a))}

IsBelowOneOf(q, dirs) == \E a \in dirs : IsBelow(q, a)

UnderExcluded(q) == IsBelowOneOf(q, ExcludedDirs)

\* q's extension, from the last dot of its last element, is listed
HasListedExt(q) ==
    \E k \in 1..Len(q) :
        /\ q[k] = "."
        /\ \A m \in (k + 1)..Len(q) : q[m] # "." /\ q[m] # Sep
        /\ \E i \in 1..Len(config.includeExts) :
              config.includeExts[i] = SubSeq(q, k, Len(q))

\* the files that are to have a section
Wanted ==
    LET excluded == ExcludedDirs
    IN  {q \in DOMAIN fsys :
            /\ InTree(q) /\ fsys[q].kind = "file" /\ ~IsBelowOneOf(q, excluded)
            /\ config.includeExts = <<>> \/ HasListedExt(q)}

\* the wanted files in pre-order: a directory's entries by name, and the
\* files below a directory where the directory stands
RECURSIVE ListingOf(_, _, _), ListingAll(_, _, _)
ListingOf(q, excluded, wanted) ==
    IF fsys[q].kind = "file" THEN (IF q \in wanted THEN <<q>> ELSE <<>>)
    ELSE IF q \in excluded THEN <<>>
    ELSE ListingAll(ReadDir(fsys, q), excluded, wanted)

ListingAll(qs, excluded, wanted) ==
    IF qs = <<>> THEN <<>>
    ELSE ListingOf(Head(qs), excluded, wanted)
         \o ListingAll(Tail(qs), excluded, wanted)

Listing(q) == ListingOf(q, ExcludedDirs, Wanted)

IsPrefix(a, b) == Len(a) <= Len(b) /\ SubSeq(b, 1, Len(a)) = a

RECURSIVE Flatten(_)
Flatten(chunks) ==
    IF chunks = <<>> THEN <<>> ELSE Head(chunks) \o Flatten(Tail(chunks))

\* line without the carriage return it may end with
StripCR(line) ==
    IF line # <<>> /\ line[Len(line)] = CR
    THEN SubSeq(line, 1, Len(line) - 1) ELSE line

\* the lines of content, each followed by one newline
RECURSIVE Transcript(_)
Transcript(content) ==
    IF content = <<>> THEN <<>>
    ELSE LET line == LineFrom(content, 1)
         IN  StripCR(line) \o <<NL>>
             \o Transcript(SubSeq(content, Len(line) + 2, Len(content)))

\* a section: header line, opening fence, body, closing fence, blank line
Shape(rel, body) ==
    <<"## File: ">> \o rel \o <<NL, Fence, NL>> \o body \o <<Fence, NL, NL>>

\* text is a section of rel with some body of newline-terminated lines
HasShape(text, rel) ==
    LET head == <<"## File: ">> \o rel \o <<NL, Fence, NL>>
        foot == <<Fence, NL, NL>>
        n == Len(text) - Len(head) - Len(foot)
    IN  /\ n >= 0
        /\ SubSeq(text, 1, Len(head)) = head
        /\ SubSeq(text, Len(text) - 2, Len(text)) = foot
        /\ n = 0 \/ text[Len(head) + n] = NL

SectionPath(i) == JoinPath(AbsPath, sections[i].rel)
IsClosed(i) == sections[i].to > 0
Ended == pc \in {"return", "exited"}

-----------------------------------------------------------------------------
(* C1: the callback is never called on anything below a directory that     *)
(* matches the exclusion list, no file below one has a section, and a walk *)
(* that ends well has called the callback on everything else: the excluded *)
(* directory's siblings are walked.                                         *)
C1_ExcludedSubtreeSkipped ==
    LET excluded == ExcludedDirs
    IN  /\ \A i \in 1..Len(visited) : ~IsBelowOneOf(visited[i].path, excluded)
        /\ \A i \in 1..Len(sections) : ~IsBelowOneOf(SectionPath(i), excluded)
        /\ Ended /\ result = Nil =>
              \A q \in DOMAIN fsys :
                  InTree(q) /\ ~IsBelowOneOf(q, excluded) =>
                      \E i \in 1..Len(visited) : visited[i].path = q

\* a walk that ended well, met the excluded directory n, which has files
\* two levels down, and went on to n's sibling s
C1_Witness ==
    /\ pc = "exited" /\ result = Nil
    /\ In(<<"n">>) \in ExcludedDirs
    /\ In(<<"n", Sep, "d", Sep, "x", ".", "g">>) \in DOMAIN fsys
    /\ \E i \in 1..Len(visited) : \E j \in (i + 1)..Len(visited) :
          visited[i].path = In(<<"n">>) /\ visited[j].path = In(<<"s">>)

-----------------------------------------------------------------------------
(* C2: when processDirectory returns nil, the sections are those of the    *)
(* wanted files, one each and all closed: the files outside excluded       *)
(* directories whose extension is listed, or all of them if none is.       *)
C2_SectionsAreTheWantedFiles ==
    Ended /\ result = Nil =>
        LET wanted == Wanted
        IN  /\ \A q \in wanted :
                  Cardinality({i \in 1..Len(sections) :
                                  sections[i].rel = Rel(AbsPath, q)}) = 1
            /\ \A i \in 1..Len(sections) :
                  SectionPath(i) \in wanted /\ IsClosed(i)

\* a run with --extensions that ended well and left b.t out
C2_Witness ==
    /\ pc = "exited" /\ result = Nil
    /\ config.includeExts # <<>>
    /\ In(<<"b", ".", "t">>) \in DOMAIN fsys
    /\ ~UnderExcluded(In(<<"b", ".", "t">>))
    /\ Len(sections) >= 3

-----------------------------------------------------------------------------
(* C3: the sections come in pre-order, one after the other with nothing    *)
(* between them, only the last of them may be open, and each is the header *)
(* line, the opening fence, the lines of the file each with one newline,   *)
(* the closing fence and a blank line.  (The output file's own section     *)
(* holds what a read of the growing file returned.)  A run without I/O     *)
(* fault leaves on disk all that was written.                               *)
C3_SectionsInPreOrder ==
    /\ sections # <<>> =>
          LET wanted == Listing(AbsPath)
          IN  /\ Len(sections) <= Len(wanted)
              /\ \A i \in 1..Len(sections) : SectionPath(i) = wanted[i]
    /\ sections # <<>> =>
          sections[1].from =
              Len(Flatten(writeHeaderLines(AbsPath, config))) + 1
    /\ \A i \in 1..(Len(sections) - 1) :
          IsClosed(i) /\ sections[i + 1].from = sections[i].to + 1
    /\ \A i \in 1..Len(sections) :
          LET upto == IF IsClosed(i) THEN sections[i].to ELSE Len(out.sent)
              text == SubSeq(out.sent, sections[i].from, upto)
              whole == Shape(sections[i].rel, Transcript(fsys[SectionPath(i)].data))
          IN  /\ ~IsClosed(i) => i = Len(sections) /\ (pc = "scan" \/ err # Nil)
              /\ IsClosed(i) => HasShape(text, sections[i].rel)
              /\ SectionPath(i) # Dest =>
                    IF IsClosed(i) THEN text = whole ELSE IsPrefix(text, whole)
    /\ pc = "walk" /\ sections # <<>> =>
          sections[Len(sections)].to = Len(out.sent)
    /\ pc = "exited" /\ result = Nil /\ ~out.hit => out.disk = out.sent

\* a run that ended well with the sections of a.g (no final newline), of
\* b.t (carriage returns) and of files one and two directories down
C3_Witness ==
    /\ pc = "exited" /\ result = Nil /\ ~out.hit
    /\ Len(sections) >= 5
    /\ sections[1].rel = <<"a", ".", "g">>
    /\ sections[2].rel = <<"b", ".", "t">>
    /\ sections[3].rel = <<"n", Sep, "d", Sep, "x", ".", "g">>
    /\ sections[4].rel = <<"n", Sep, "i", ".", "g">>

-----------------------------------------------------------------------------
(* C5: once the walk has met an error, nothing more is visited, no section *)
(* is started or closed, nothing more is handed to the writer and the      *)
(* counter stays; processDirectory returns that error and the process      *)
(* exits with 1.  The counter counts the closed sections only.             *)
C5_FirstErrorAborts ==
    /\ [](/\ fileCount = Cardinality({i \in 1..Len(sections) : IsClosed(i)})
          /\ err # Nil => Ended /\ result = err
          /\ pc = "exited" /\ result # Nil => exitCode = 1)
    /\ [][err # Nil /\ run' = run =>
             /\ visited' = visited
             /\ sections' = sections
             /\ fileCount' = fileCount
             /\ out'.sent = out.sent]_vars

\* the process has exited with 1 on a file that could not be opened, after
\* a file was transcribed and with nodes left to walk
C5_Witness ==
    /\ pc = "exited" /\ exitCode = 1
    /\ err.op = "open" /\ result = err
    /\ fileCount = 1
    /\ Len(todo) > 1

-----------------------------------------------------------------------------
(* C6: the output file goes Unopened, Open, Closed; no write reaches it    *)
(* while it is not open; it is closed once if it was opened, on every way  *)
(* out, after the last flush; and an input file is open exactly while      *)
(* processFile runs.                                                        *)
C6_OpenedThenClosedOnce ==
    /\ ~out.late
    /\ out.state = "Unopened" <=> hist.outOpens = 0
    /\ out.state = "Open" <=> hist.outOpens = 1 /\ hist.outCloses = 0
    /\ out.state = "Closed" <=> hist.outOpens = 1 /\ hist.outCloses = 1
    /\ out.state = "Unopened" =>
          out.sent = <<>> /\ out.buf = <<>> /\ out.disk = prev.disk
    /\ out.state = "Closed" /\ ~out.hit => out.buf = <<>> /\ out.disk = out.sent
    /\ pc = "exited" => out.state # "Open" /\ defers = <<>>
    /\ hist.inOpens - hist.inCloses = (IF pc = "scan" THEN 1 ELSE 0)

\* the way out on a header write error: the file was opened and is closed
C6_Witness ==
    /\ pc = "exited" /\ result.op = "header"
    /\ out.state = "Closed" /\ hist.outOpens = 1 /\ hist.outCloses = 1

-----------------------------------------------------------------------------
-----------------------------------------------------------------------------
(* C8: a second run with the same flags on what the first run left, with   *)
(* no I/O fault in either, ends as the first did and leaves the same       *)
(* output, byte for byte; the output file may lie in the tree.              *)
C8_SecondRunSameOutput ==
    pc = "exited" /\ run = 2 /\ ~prev.hit /\ ~out.hit =>
        /\ out.disk = prev.disk
        /\ result = prev.result
        /\ exitCode = prev.exitCode

\* a second run that ended well, whose output file lies in the tree and
\* has a section of its own with lines in it
C8_Witness ==
    /\ pc = "exited" /\ run = 2 /\ ~prev.hit /\ ~out.hit /\ result = Nil
    /\ out.disk # <<>>
    /\ \E i \in 1..Len(sections) :
          /\ SectionPath(i) = Dest
          /\ sections[i].to - sections[i].from > 8

-----------------------------------------------------------------------------
(* C10: a call of processFile reads the lines its file held when it was    *)
(* opened and no more, so that the loop ends with the file.                 *)
C10_ReadsOnlyTheFile ==
    pc = "scan" => lineCount <= opened

\* a call that has read more lines than its file held when it was opened
\* is reading what it wrote itself, and does not come to the end of the
\* file for as long as the output is followed (MaxDisk): only an error
\* ends it
SelfFedReadGoesOn ==
    [][pc = "scan" /\ lineCount > opened => pc' # "walk"]_vars

====
